---- MODULE Spec2Model ----
(***************************************************************************)
(* State-machine model of src/src/components/CircleCanvas.tsx, the         *)
(* ParticleSimulation component: the mount effect, the animation frame,    *)
(* the force computation, the resize and pointer handlers, the sliders and *)
(* the effect cleanup.                                                     *)
(*                                                                         *)
(* Numbers.  The program computes in IEEE doubles; the model computes in   *)
(* exact rationals <<n, d>> (d > 0, lowest terms).  Particle and pointer   *)
(* positions are drawn from integer points whose mutual distances are      *)
(* integers, so Math.sqrt is exact on every input the model enumerates.    *)
(* Frame timestamps are whole milliseconds and the delta-time handed to    *)
(* world.step is kept in thousandths of a time-unit (0.1 is 100, 0.016 is  *)
(* 16).                                                                    *)
(*                                                                         *)
(* Library.  world.step (cannon-es) is modelled by its contract with this  *)
(* program: it integrates the force accumulators as they stand when it is  *)
(* called, moves the dynamic bodies (to any admissible configuration: the  *)
(* solver itself is not modelled), and clears the accumulators before it   *)
(* returns.  body.applyForce adds its argument to the accumulator.         *)
(***************************************************************************)
EXTENDS Integers, Sequences, FiniteSets, TLC

\* ------------------------------------------------------------------ bounds
\* frames executed in a behaviour of Spec
MaxFrames == 3
\* resize events handled in a behaviour
MaxResizes == 2
\* frames executed in a behaviour of SpecForces
ForceFrames == 1

\* ------------------------------------------------------- program constants
DefaultParticleRadius == 7
DefaultPushRadius == 80
DefaultAttractionRadius == 150
DefaultAttractionStrength == 25000
DefaultPushStrength == 30000
\* 0.016 and 0.1 time-units, in thousandths
DefaultDeltaTime == 16
MaxDeltaTime == 100
boundaryThickness == 50

\* --------------------------------------------------------------- rationals
Abs(n) == IF n < 0 THEN -n ELSE n

RECURSIVE Gcd(_, _)
Gcd(a, b) == IF b = 0 THEN a ELSE Gcd(b, a % b)

\* the rational n/d in lowest terms with a positive denominator (d # 0)
Rat(n, d) ==
  LET g == Gcd(Abs(n), Abs(d))
      s == IF d < 0 THEN -1 ELSE 1
  IN  <<(s * n) \div g, (s * d) \div g>>

RInt(n) == <<n, 1>>
RZero == <<0, 1>>
RAdd(a, b) == Rat(a[1] * b[2] + b[1] * a[2], a[2] * b[2])
RNeg(a) == <<-a[1], a[2]>>
RMul(a, b) == Rat(a[1] * b[1], a[2] * b[2])
RDiv(a, b) == Rat(a[1] * b[2], a[2] * b[1])
RLess(a, b) == a[1] * b[2] < b[1] * a[2]

\* vectors of rationals (the x and y of a CANNON.Vec3; z is 0 throughout)
VZero == <<RZero, RZero>>
VAdd(u, v) == <<RAdd(u[1], v[1]), RAdd(u[2], v[2])>>
VNeg(u) == <<RNeg(u[1]), RNeg(u[2])>>

\* Math.sqrt on a whole number: its integer part, by bisection on [lo, hi]
RECURSIVE Root(_, _, _)
Root(n, lo, hi) ==
  IF lo >= hi THEN lo
  ELSE LET mid == (lo + hi + 1) \div 2
       IN  IF mid * mid <= n THEN Root(n, mid, hi) ELSE Root(n, lo, mid - 1)

\* Math.sqrt(dx * dx + dy * dy) on the points the model feeds it: the
\* distance is a whole number there (Integral), and at most |dx| + |dy|
DistSq(p, q) == (p[1] - q[1]) * (p[1] - q[1]) + (p[2] - q[2]) * (p[2] - q[2])
Dist(p, q) == Root(DistSq(p, q), 0, Abs(p[1] - q[1]) + Abs(p[2] - q[2]))
Integral(p, q) == Dist(p, q) * Dist(p, q) = DistSq(p, q)

\* ------------------------------------------------------------ input domains
\* window.innerWidth x window.innerHeight
Viewports == { <<800, 600>>, <<1200, 800>> }
\* numParticles of a run (the program's default, 1000, is out of reach)
ParticleCounts == { 2 }
ForceParticleCounts == { 1, 2, 3 }
\* positions a particle can take (Math.random placement, world.step motion):
\* the few of Spec, the many of SpecForces
CoarsePts == { <<0, 0>>, <<24, 32>> }
Pts == { <<0, 0>>, <<14, 0>>, <<-6, -8>>, <<24, 32>>, <<60, 80>>, <<90, 120>> }
\* pointer positions in scene coordinates
MousePts == { <<0, 0>>, <<1, 0>>, <<48, 64>> }
\* slider values (min 50, max 300, step 10; min 5000, max 100000, step 5000)
AttractionRadii == { 50, 150 }
AttractionStrengths == { 5000, 25000 }
\* values the setters of the particle count and radius are called with
HarnessCounts == { 1, 2 }
HarnessRadii == { 7, 10 }
\* timestamp of the first frame, and time between two frames, in ms
FirstTimes == { 0, 16 }
FrameGaps == { 16, 5000 }

VARIABLES
  numParticles,      \* React state (line 19)
  particleRadius,    \* React state (line 20)
  worldRef,          \* worldRef.current holds the world (FALSE is null)
  cameraRef,         \* cameraRef.current holds the camera
  rendererRef,       \* rendererRef.current holds the renderer
  canvasRef,         \* canvasRef.current holds the container (FALSE is null)
  window,            \* <<innerWidth, innerHeight>> of the browser window
  attractionRadius,  \* React state (line 22)
  attractionStrength,\* React state (line 23)
  closure,           \* the state values of the render whose effect ran
  rendererSize,      \* renderer.setSize arguments
  camera,            \* left, right, top, bottom of the orthographic camera
  body,              \* the CANNON.Body objects alive, by identity
  worldBodies,       \* world.bodies
  contactMaterials,  \* world.contactmaterials
  nextBodyId,        \* identity of the next CANNON.Body
  nextMaterialId,    \* identity of the next CANNON.Material
  bodiesRef,         \* bodiesRef.current
  particlesRef,      \* particlesRef.current (the meshes)
  sceneChildren,     \* meshes added to the scene
  mousePositionRef,  \* mousePositionRef.current
  prevTimeRef,       \* prevTimeRef.current
  requestRef,        \* requestRef.current (0 is null)
  rafPending,        \* frame requests the browser still holds
  nextHandle,        \* the handle the next requestAnimationFrame returns
  listeners,         \* mousemove and resize listeners are registered
  domAttached,       \* renderer.domElement is a child of the container
  frames,            \* frames executed
  resizes,           \* resize events handled
  steps,             \* world.step calls made
  stepDt,            \* argument of the latest world.step call
  stepForce,         \* accumulators the latest world.step integrated
  forceCalls,        \* the latest applyForces: the pointer position it read
                     \* (line 276) and its body.applyForce calls, loop by loop
  rendered           \* mesh positions of the latest renderer.render call

\* the state no frame and no event handler of the component assigns
held == << numParticles, particleRadius, worldRef, cameraRef, rendererRef >>

vars == << held, canvasRef, window, attractionRadius, attractionStrength, closure, rendererSize,
           camera, body, worldBodies, contactMaterials, nextBodyId,
           nextMaterialId, bodiesRef, particlesRef, sceneChildren,
           mousePositionRef, prevTimeRef, requestRef, rafPending, nextHandle,
           listeners, domAttached, frames, resizes, steps, stepDt,
           stepForce, forceCalls, rendered >>

\* ------------------------------------------------------------- applyForces
\* PushCall with a push that grows with the distance (forceScale =
\* distance / pushRadius)
MutantPushCallRising(i, p, mouse, cl) ==
  LET dx == p[1] - mouse[1]
      dy == p[2] - mouse[2]
      distance == Dist(p, mouse)
  IN  IF distance < cl.pushRadius /\ distance > 1
      THEN LET forceScale == Rat(distance, cl.pushRadius)
               forceX == RMul(RMul(Rat(dx, distance), forceScale),
                              RInt(cl.pushStrength))
               forceY == RMul(RMul(Rat(dy, distance), forceScale),
                              RInt(cl.pushStrength))
           IN  << [body |-> i, force |-> <<forceX, forceY>>] >>
      ELSE << >>

\* PushCall with a pointer read in two halves: the x of the pointer position
\* and the y of the initial one
MutantPushCallTornPointer(i, p, mouse, cl) ==
  LET torn == << mouse[1], 0 >>
      dx == p[1] - torn[1]
      dy == p[2] - torn[2]
      distance == Dist(p, torn)
  IN  IF distance < cl.pushRadius /\ distance > 1
      THEN LET forceScale == Rat(cl.pushRadius - distance, cl.pushRadius)
               forceX == RMul(RMul(Rat(dx, distance), forceScale),
                              RInt(cl.pushStrength))
               forceY == RMul(RMul(Rat(dy, distance), forceScale),
                              RInt(cl.pushStrength))
           IN  << [body |-> i, force |-> <<forceX, forceY>>] >>
      ELSE << >>

\* lines 279-290: the pointer loop's applyForce call for the body at index i
PushCall(i, p, mouse, cl) ==
  LET dx == p[1] - mouse[1]
      dy == p[2] - mouse[2]
      distance == Dist(p, mouse)
  IN  IF distance < cl.pushRadius /\ distance > 1
      THEN LET forceScale == Rat(cl.pushRadius - distance, cl.pushRadius)
               forceX == RMul(RMul(Rat(dx, distance), forceScale),
                              RInt(cl.pushStrength))
               forceY == RMul(RMul(Rat(dy, distance), forceScale),
                              RInt(cl.pushStrength))
           IN  << [body |-> i, force |-> <<forceX, forceY>>] >>
      ELSE << >>

RECURSIVE PushCalls(_, _, _, _)
PushCalls(i, pos, mouse, cl) ==
  IF i > Len(pos) THEN << >>
  ELSE PushCall(i, pos[i], mouse, cl) \o PushCalls(i + 1, pos, mouse, cl)

\* PairSkipped with <= for <: a pair in contact is skipped too
MutantPairSkippedInclusive(distance, cl) ==
  distance <= cl.particleRadius * 2 \/ distance > cl.attractionRadius

\* line 304: the pair is skipped
PairSkipped(distance, cl) ==
  distance < cl.particleRadius * 2 \/ distance > cl.attractionRadius

\* PairForce with the y of the force on B not negated
MutantPairForceHalfNegated(i, j, pa, pb, cl) ==
  LET dx == pb[1] - pa[1]
      dy == pb[2] - pa[2]
      distance == Dist(pa, pb)
      forceMagnitude == Rat(cl.attractionStrength, distance * distance)
      forceX == RMul(Rat(dx, distance), forceMagnitude)
      forceY == RMul(Rat(dy, distance), forceMagnitude)
  IN  << [body |-> i, force |-> <<forceX, forceY>>],
         [body |-> j, force |-> <<RNeg(forceX), forceY>>] >>

\* PairForce with an inverse-distance law (attractionStrength / distance)
MutantPairForceInverseLinear(i, j, pa, pb, cl) ==
  LET dx == pb[1] - pa[1]
      dy == pb[2] - pa[2]
      distance == Dist(pa, pb)
      forceMagnitude == Rat(cl.attractionStrength, distance)
      forceX == RMul(Rat(dx, distance), forceMagnitude)
      forceY == RMul(Rat(dy, distance), forceMagnitude)
  IN  << [body |-> i, force |-> <<forceX, forceY>>],
         [body |-> j, force |-> <<RNeg(forceX), RNeg(forceY)>>] >>

\* lines 307-313: the two applyForce calls for the pair (i, j), i < j
PairForce(i, j, pa, pb, cl) ==
  LET dx == pb[1] - pa[1]
      dy == pb[2] - pa[2]
      distance == Dist(pa, pb)
      forceMagnitude == Rat(cl.attractionStrength, distance * distance)
      forceX == RMul(Rat(dx, distance), forceMagnitude)
      forceY == RMul(Rat(dy, distance), forceMagnitude)
  IN  << [body |-> i, force |-> <<forceX, forceY>>],
         [body |-> j, force |-> <<RNeg(forceX), RNeg(forceY)>>] >>

\* lines 296-314: the body of the outer loop at (i, j)
PairCall(i, j, pos, cl) ==
  IF PairSkipped(Dist(pos[i], pos[j]), cl) THEN << >>
  ELSE PairForce(i, j, pos[i], pos[j], cl)

\* lines 293-315: for i, for j = i + 1
RECURSIVE PairCalls(_, _, _, _)
PairCalls(i, j, pos, cl) ==
  IF i > Len(pos) THEN << >>
  ELSE IF j > Len(pos) THEN PairCalls(i + 1, i + 2, pos, cl)
  ELSE PairCall(i, j, pos, cl) \o PairCalls(i, j + 1, pos, cl)

\* body.applyForce: force.vadd(force, this.force), call after call
RECURSIVE Accumulate(_, _, _)
Accumulate(calls, i, f) ==
  IF calls = << >> THEN f
  ELSE Accumulate(Tail(calls), i,
                  IF Head(calls).body = i THEN VAdd(f, Head(calls).force) ELSE f)

\* ---------------------------------------------------------- the world
\* the bodies of bodiesRef.current, as positions in list order
Positions(b, ref) == [i \in 1..Len(ref) |-> b[ref[i]].position]

\* Includes that never looks at the first entry of the list
MutantIncludesFromSecond(list, id) == \E k \in 2..Len(list) : list[k] = id

\* Array.prototype.includes on a list of body identities
Includes(list, id) == \E k \in 1..Len(list) : list[k] = id

\* world.removeBody: splice the body out of world.bodies
RemoveAt(list, i) == [k \in 1..(Len(list) - 1) |-> IF k < i THEN list[k] ELSE list[k + 1]]

\* RemoveOldBoundaries walking the list forwards while it splices: the body
\* that follows a removed one is skipped
RECURSIVE RemoveForwards(_, _, _)
RemoveForwards(bodies, i, particleBodies) ==
  IF i > Len(bodies) THEN bodies
  ELSE IF \A k \in 1..Len(particleBodies) : particleBodies[k] # bodies[i]
       THEN RemoveForwards([k \in 1..(Len(bodies) - 1) |->
                              IF k < i THEN bodies[k] ELSE bodies[k + 1]],
                           i + 1, particleBodies)
       ELSE RemoveForwards(bodies, i + 1, particleBodies)
MutantRemoveOldBoundariesForwards(bodies, i, particleBodies) ==
  RemoveForwards(bodies, 1, particleBodies)

\* lines 135-140: for (i = bodies.length - 1; i >= 0; i--) remove what is
\* not a particle body (i is the 1-based index here)
RECURSIVE RemoveOldBoundaries(_, _, _)
RemoveOldBoundaries(bodies, i, particleBodies) ==
  IF i < 1 THEN bodies
  ELSE IF ~Includes(particleBodies, bodies[i])
       THEN RemoveOldBoundaries(RemoveAt(bodies, i), i - 1, particleBodies)
       ELSE RemoveOldBoundaries(bodies, i - 1, particleBodies)

\* lines 244-253: the static body createWall adds
Wall(x, y, width, height, material) ==
  [mass |-> 0, position |-> <<x, y>>, size |-> <<width, height>>,
   material |-> material]

\* Walls centred on the edges of the viewport (the half thickness forgotten)
MutantWallsOnEdges(boxWidth, boxHeight, material) ==
  LET halfWidth == boxWidth \div 2
      halfHeight == boxHeight \div 2
  IN  << Wall(0, halfHeight, boxWidth, boundaryThickness, material),
         Wall(0, -halfHeight, boxWidth, boundaryThickness, material),
         Wall(-halfWidth, 0, boundaryThickness, boxHeight, material),
         Wall(halfWidth, 0, boundaryThickness, boxHeight, material) >>

\* lines 255-259: top, bottom, left, right (the viewports of the model have
\* even extents, so the halves are whole numbers)
Walls(boxWidth, boxHeight, material) ==
  LET halfWidth == boxWidth \div 2
      halfHeight == boxHeight \div 2
  IN  << Wall(0, halfHeight + boundaryThickness \div 2, boxWidth, boundaryThickness, material),
         Wall(0, -halfHeight - boundaryThickness \div 2, boxWidth, boundaryThickness, material),
         Wall(-halfWidth - boundaryThickness \div 2, 0, boundaryThickness, boxHeight, material),
         Wall(halfWidth + boundaryThickness \div 2, 0, boundaryThickness, boxHeight, material) >>

\* lines 218-260: createBoundaries on the world w = [body, bodies,
\* contactMaterials, nextBodyId, nextMaterialId], with bodiesRef.current = ref
CreateBoundaries(w, ref, boxWidth, boxHeight) ==
  LET boundaryMaterial == w.nextMaterialId
      walls == Walls(boxWidth, boxHeight, boundaryMaterial)
      ids == [k \in 1..4 |-> w.nextBodyId + k - 1]
  IN  [ body |-> [id \in DOMAIN w.body \cup {ids[k] : k \in 1..4} |->
                    IF id \in DOMAIN w.body THEN w.body[id]
                    ELSE walls[id - w.nextBodyId + 1]],
        bodies |-> w.bodies \o ids,
        contactMaterials |->
          IF Len(ref) > 0
          THEN Append(w.contactMaterials, <<w.body[ref[1]].material, boundaryMaterial>>)
          ELSE w.contactMaterials,
        nextBodyId |-> w.nextBodyId + 4,
        nextMaterialId |-> w.nextMaterialId + 1 ]

\* lines 199-211: the body createParticles adds for a particle at (x, y)
Particle(p, radius, material) ==
  [mass |-> 1, position |-> p, force |-> VZero, radius |-> radius,
   material |-> material]

\* lines 146-216: createParticles on an empty world, the placements drawn
\* (Math.random) being pos; identities count from 1
CreateParticles(pos, cl) ==
  [ body |-> [id \in 1..cl.numParticles |-> Particle(pos[id], cl.particleRadius, 1)],
    bodies |-> [id \in 1..cl.numParticles |-> id],
    contactMaterials |-> << <<1, 1>> >>,
    nextBodyId |-> cl.numParticles + 1,
    nextMaterialId |-> 2 ]

\* lines 184-187: a placement inside the disc of radius
\* 0.8 * min(halfWidth, halfHeight) around the centre
Placeable(p, win) ==
  LET m == IF win[1] < win[2] THEN win[1] ELSE win[2]
  IN  \* |p| < 0.8 * m / 2
      25 * DistSq(p, <<0, 0>>) < 4 * m * m

\* configurations of n bodies and a pointer on which Math.sqrt is exact
\* (IntegralPairs tabulates Integral on the points of the model)
IntegralPairs ==
  { <<p, q, Integral(p, q)>> : p \in Pts \cup CoarsePts \cup MousePts,
                               q \in Pts \cup CoarsePts \cup MousePts }
Exact(pos, mouse) ==
  /\ \A i \in DOMAIN pos : <<pos[i], mouse, TRUE>> \in IntegralPairs
  /\ \A i, j \in DOMAIN pos : <<pos[i], pos[j], TRUE>> \in IntegralPairs
Configs(points, n, mouse) == { pos \in [1..n -> points] : Exact(pos, mouse) }

\* lines 59-68, 119-125: the frustum of the camera for a viewport
Frustum(win) ==
  LET frustumSize == 1000
      aspectRatio == Rat(win[1], win[2])
  IN  [ left |-> RDiv(RMul(RInt(frustumSize), aspectRatio), RInt(-2)),
        right |-> RDiv(RMul(RInt(frustumSize), aspectRatio), RInt(2)),
        top |-> Rat(frustumSize, 2),
        bottom |-> Rat(frustumSize, -2) ]

\* the values of the first render, which the effect's callbacks close over
FirstRender(n) ==
  [ numParticles |-> n,
    particleRadius |-> DefaultParticleRadius,
    pushRadius |-> DefaultPushRadius,
    attractionRadius |-> DefaultAttractionRadius,
    attractionStrength |-> DefaultAttractionStrength,
    pushStrength |-> DefaultPushStrength ]

\* lines 29-107: the state once the mount effect has run, for a run of n
\* particles placed on the given points in a window of one of the viewports
Mounted(n, points, viewports) ==
  \E win \in viewports :
  \E pos \in Configs(points, n, <<0, 0>>) :
    LET w == CreateBoundaries(CreateParticles(pos, FirstRender(n)),
                              [i \in 1..n |-> i], win[1], win[2])
    IN  /\ \A i \in 1..n : Placeable(pos[i], win)
        /\ numParticles = n
        /\ particleRadius = DefaultParticleRadius
        /\ worldRef = TRUE
        /\ cameraRef = TRUE
        /\ rendererRef = TRUE
        /\ canvasRef = TRUE
        /\ window = win
        /\ attractionRadius = DefaultAttractionRadius
        /\ attractionStrength = DefaultAttractionStrength
        /\ closure = FirstRender(n)
        /\ rendererSize = win
        /\ camera = Frustum(win)
        /\ body = w.body
        /\ worldBodies = w.bodies
        /\ contactMaterials = w.contactMaterials
        /\ nextBodyId = w.nextBodyId
        /\ nextMaterialId = w.nextMaterialId
        /\ bodiesRef = [i \in 1..n |-> i]
        /\ particlesRef = [i \in 1..n |-> [mesh |-> i, position |-> pos[i]]]
        /\ sceneChildren = [i \in 1..n |-> i]
        /\ mousePositionRef = <<0, 0>>
        /\ prevTimeRef = 0
        /\ requestRef = 1
        /\ rafPending = {1}
        /\ nextHandle = 2
        /\ listeners = TRUE
        /\ domAttached = TRUE
        /\ frames = 0
        /\ resizes = 0
        /\ steps = 0
        /\ stepDt = 0
        /\ stepForce = [i \in 1..n |-> VZero]
        /\ forceCalls = [mouse |-> <<0, 0>>, pointer |-> << >>, pair |-> << >>]
        /\ rendered = << >>

\* ------------------------------------------------------------- the frame
\* line 86: the delta-time in thousandths of a time-unit; time and prev are
\* in ms, so (time - prev) / 1000 time-units is time - prev thousandths
DeltaTime(time, prev) ==
  IF prev # 0
  THEN IF time - prev < MaxDeltaTime THEN time - prev ELSE MaxDeltaTime
  ELSE DefaultDeltaTime

\* world.step: the dynamic bodies move to newPos and the accumulators are
\* cleared (World.internalStep ends with clearForces)
WorldStep(b, ref, newPos) ==
  [id \in DOMAIN b |->
     IF \E i \in 1..Len(ref) : ref[i] = id
     THEN LET i == CHOOSE i \in 1..Len(ref) : ref[i] = id
          IN  [b[id] EXCEPT !.position = newPos[i], !.force = VZero]
     ELSE b[id]]

\* body.applyForce on the bodies b, for the calls of one applyForces
ApplyCalls(b, ref, calls) ==
  [id \in DOMAIN b |->
     IF \E i \in 1..Len(ref) : ref[i] = id
     THEN LET i == CHOOSE i \in 1..Len(ref) : ref[i] = id
          IN  [b[id] EXCEPT !.force = Accumulate(calls, i, b[id].force)]
     ELSE b[id]]

\* updateParticlePositions that copies nothing (the meshes keep the positions
\* of the frame before)
MutantUpdateParticlePositionsSkipped(particles, b, ref) == particles

\* updateParticlePositions handing the meshes back in the opposite order
MutantUpdateParticlePositionsReversed(particles, b, ref) ==
  [i \in 1..Len(particles) |->
     LET k == Len(particles) + 1 - i
     IN  IF k <= Len(ref)
         THEN [particles[k] EXCEPT !.position = b[ref[k]].position]
         ELSE particles[k]]

\* lines 318-331: updateParticlePositions
UpdateParticlePositions(particles, b, ref) ==
  [i \in 1..Len(particles) |->
     IF i <= Len(ref)
     THEN [particles[i] EXCEPT !.position = b[ref[i]].position]
     ELSE particles[i]]

\* the accumulators world.step finds, per entry of bodiesRef.current
Accumulators(b, ref) == [i \in 1..Len(ref) |-> b[ref[i]].force]

\* lines 89-91: world.step(deltaTime), then applyForces(); calls are the
\* applyForce calls applyForces makes on the positions world.step left.
\* integrated is what world.step found in the accumulators, bodies the bodies
\* as the frame leaves them
StepAndForces(b, ref, newPos, calls) ==
  [ integrated |-> Accumulators(b, ref),
    bodies |-> ApplyCalls(WorldStep(b, ref, newPos), ref, calls) ]

\* renderer.render(scene, camera): what is drawn, per child of the scene
Drawn(children, meshes) ==
  [k \in 1..Len(children) |->
     meshes[CHOOSE i \in 1..Len(meshes) : meshes[i].mesh = children[k]].position]

\* animate asking for a frame twice (at its start and again at its end)
MutantRequestedHandlesTwice(next) == { next, next + 1 }

\* line 84: the handles of the requests one run of animate makes, next being
\* the handle the browser hands out next
RequestedHandles(next) == { next }

\* the largest of a set of handles (the one assigned to requestRef last)
Latest(handles) == CHOOSE m \in handles : \A k \in handles : k <= m

\* lines 83-95: one frame, the callback of the pending request h, at
\* timestamp time; newPos is where world.step leaves the particles
Animate(h, time, newPos) ==
  /\ h \in rafPending
  /\ requestRef' = Latest(RequestedHandles(nextHandle))
  /\ rafPending' = (rafPending \ {h}) \cup RequestedHandles(nextHandle)
  /\ nextHandle' = nextHandle + Cardinality(RequestedHandles(nextHandle))
  /\ stepDt' = DeltaTime(time, prevTimeRef)
  /\ steps' = steps + 1
  /\ prevTimeRef' = time
  /\ forceCalls' = [mouse |-> mousePositionRef,
                    pointer |-> PushCalls(1, newPos, mousePositionRef, closure),
                    pair |-> PairCalls(1, 2, newPos, closure)]
  /\ stepForce' = StepAndForces(body, bodiesRef, newPos,
                                forceCalls'.pointer \o forceCalls'.pair).integrated
  /\ body' = StepAndForces(body, bodiesRef, newPos,
                           forceCalls'.pointer \o forceCalls'.pair).bodies
  /\ particlesRef' = UpdateParticlePositions(particlesRef, body', bodiesRef)
  /\ rendered' = Drawn(sceneChildren, particlesRef')
  /\ frames' = frames + 1
  /\ UNCHANGED << held, canvasRef, window, attractionRadius, attractionStrength, closure,
                  rendererSize, camera, worldBodies, contactMaterials,
                  nextBodyId, nextMaterialId, bodiesRef, sceneChildren,
                  mousePositionRef, listeners, domAttached, resizes >>

\* the timestamps the browser can hand to the next frame
FrameTimes ==
  IF frames = 0 THEN FirstTimes ELSE { prevTimeRef + g : g \in FrameGaps }

\* ----------------------------------------------------------- the handlers
\* lines 110-144: handleResize, reading window.innerWidth / innerHeight
ResizedWorld(b, bodies, cms, nb, nm, ref, boxWidth, boxHeight) ==
  LET kept == RemoveOldBoundaries(bodies, Len(bodies), ref)
      alive == { kept[k] : k \in 1..Len(kept) } \cup { ref[k] : k \in 1..Len(ref) }
  IN  CreateBoundaries([ body |-> [id \in alive |-> b[id]],
                         bodies |-> kept,
                         contactMaterials |-> cms,
                         nextBodyId |-> nb,
                         nextMaterialId |-> nm ],
                       ref, boxWidth, boxHeight)

\* one call of the function handleResize: line 111 returns when the camera
\* or the renderer is absent, line 131 skips the boundaries when the world is
\* absent
handleResizeCall ==
  /\ resizes < MaxResizes
  /\ IF ~cameraRef \/ ~rendererRef
     THEN UNCHANGED << camera, rendererSize, body, worldBodies,
                       contactMaterials, nextBodyId, nextMaterialId >>
     ELSE /\ camera' = Frustum(window)
          /\ rendererSize' = window
          /\ IF worldRef
             THEN LET w == ResizedWorld(body, worldBodies, contactMaterials,
                                        nextBodyId, nextMaterialId, bodiesRef,
                                        window[1], window[2])
                  IN  /\ body' = w.body
                      /\ worldBodies' = w.bodies
                      /\ contactMaterials' = w.contactMaterials
                      /\ nextBodyId' = w.nextBodyId
                      /\ nextMaterialId' = w.nextMaterialId
             ELSE UNCHANGED << body, worldBodies, contactMaterials,
                               nextBodyId, nextMaterialId >>
  /\ resizes' = resizes + 1
  /\ UNCHANGED << held, canvasRef, window, attractionRadius, attractionStrength, closure,
                  bodiesRef, particlesRef, sceneChildren, mousePositionRef,
                  prevTimeRef, requestRef, rafPending, nextHandle, listeners,
                  domAttached, frames, stepDt, stepForce, forceCalls,
                  rendered, steps >>

\* line 80: the resize event, delivered to the listener while it is registered
handleResize == listeners /\ handleResizeCall

\* the user resizes the browser window (the resize event follows)
WindowResized(win) ==
  /\ win # window
  /\ window' = win
  /\ UNCHANGED << held, canvasRef, attractionRadius, attractionStrength, closure, rendererSize,
                  camera, body, worldBodies, contactMaterials, nextBodyId,
                  nextMaterialId, bodiesRef, particlesRef, sceneChildren,
                  mousePositionRef, prevTimeRef, requestRef, rafPending,
                  nextHandle, listeners, domAttached, frames, resizes, stepDt,
                  stepForce, forceCalls, rendered, steps >>

\* lines 262-271: handleMouseMove for an event at (clientX, clientY); the
\* container's bounding rectangle starts at the window's corner (0, 0)
MouseTarget(clientX, clientY, win) ==
  LET rectLeft == 0
      rectTop == 0
  IN  << clientX - rectLeft - win[1] \div 2, -(clientY - rectTop) + win[2] \div 2 >>

handleMouseMove(clientX, clientY) ==
  /\ listeners
  /\ canvasRef
  /\ mousePositionRef' = MouseTarget(clientX, clientY, window)
  /\ Exact(Positions(body, bodiesRef), mousePositionRef')
  /\ mousePositionRef' # mousePositionRef
  /\ UNCHANGED << held, canvasRef, window, attractionRadius, attractionStrength, closure,
                  rendererSize, camera, body, worldBodies, contactMaterials,
                  nextBodyId, nextMaterialId, bodiesRef, particlesRef,
                  sceneChildren, prevTimeRef, requestRef, rafPending,
                  nextHandle, listeners, domAttached, frames, resizes, stepDt,
                  stepForce, forceCalls, rendered, steps >>

\* the client coordinates that land on the pointer positions of the model
ClientPts(win) == { <<p[1] + win[1] \div 2, win[2] \div 2 - p[2]>> : p \in MousePts }

\* lines 334-336: handleAttractionRadiusChange (the component renders again;
\* the effect, with its empty dependency list, does not run again).  The
\* sliders and the setters are there while the component is mounted, that is
\* until its cleanup has run (listeners)
handleAttractionRadiusChange(value) ==
  /\ listeners
  /\ value # attractionRadius
  /\ attractionRadius' = value
  /\ UNCHANGED << held, canvasRef, window, attractionStrength, closure, rendererSize, camera,
                  body, worldBodies, contactMaterials, nextBodyId,
                  nextMaterialId, bodiesRef, particlesRef, sceneChildren,
                  mousePositionRef, prevTimeRef, requestRef, rafPending,
                  nextHandle, listeners, domAttached, frames, resizes, stepDt,
                  stepForce, forceCalls, rendered, steps >>

\* lines 338-340: handleAttractionStrengthChange
handleAttractionStrengthChange(value) ==
  /\ listeners
  /\ value # attractionStrength
  /\ attractionStrength' = value
  /\ UNCHANGED << held, canvasRef, window, attractionRadius, closure, rendererSize, camera,
                  body, worldBodies, contactMaterials, nextBodyId,
                  nextMaterialId, bodiesRef, particlesRef, sceneChildren,
                  mousePositionRef, prevTimeRef, requestRef, rafPending,
                  nextHandle, listeners, domAttached, frames, resizes, stepDt,
                  stepForce, forceCalls, rendered, steps >>

\* line 19: setNumParticles, the setter of the numParticles state.  The
\* component renders again with the new value; the mount effect, with its
\* empty dependency list, does not run again, so createParticles is not called
setNumParticles(value) ==
  /\ listeners
  /\ value # numParticles
  /\ numParticles' = value
  /\ UNCHANGED << particleRadius, worldRef, cameraRef, rendererRef, canvasRef, window,
                  attractionRadius, attractionStrength, closure, rendererSize,
                  camera, body, worldBodies, contactMaterials, nextBodyId,
                  nextMaterialId, bodiesRef, particlesRef, sceneChildren,
                  mousePositionRef, prevTimeRef, requestRef, rafPending,
                  nextHandle, listeners, domAttached, frames, resizes, stepDt,
                  stepForce, forceCalls, rendered, steps >>

\* line 20: setParticleRadius, the setter of the particleRadius state
setParticleRadius(value) ==
  /\ listeners
  /\ value # particleRadius
  /\ particleRadius' = value
  /\ UNCHANGED << numParticles, worldRef, cameraRef, rendererRef, canvasRef, window,
                  attractionRadius, attractionStrength, closure, rendererSize,
                  camera, body, worldBodies, contactMaterials, nextBodyId,
                  nextMaterialId, bodiesRef, particlesRef, sceneChildren,
                  mousePositionRef, prevTimeRef, requestRef, rafPending,
                  nextHandle, listeners, domAttached, frames, resizes, stepDt,
                  stepForce, forceCalls, rendered, steps >>

\* a cleanup that forgets to cancel the pending frame request
MutantCancelAnimationFrameForgotten(pending, handle) == pending

\* line 100: if (requestRef.current) cancelAnimationFrame(requestRef.current)
CancelAnimationFrame(pending, handle) ==
  IF handle # 0 THEN pending \ {handle} ELSE pending

\* lines 99-106: the effect's cleanup, run by the unmount of the component.
\* canvas is what the cleanup finds in canvasRef.current: the unmount detaches
\* the ref of the container, before it runs the cleanup or after it (by the
\* version of React), and line 103 removes the canvas from the container only
\* if the container and the renderer are both still held
Cleanup(canvas) ==
  /\ listeners
  /\ rafPending' = CancelAnimationFrame(rafPending, requestRef)
  /\ listeners' = FALSE
  /\ domAttached' = IF canvas /\ rendererRef THEN FALSE ELSE domAttached
  /\ canvasRef' = FALSE
  /\ UNCHANGED << held, window, attractionRadius, attractionStrength, closure,
                  rendererSize, camera, body, worldBodies, contactMaterials,
                  nextBodyId, nextMaterialId, bodiesRef, particlesRef,
                  sceneChildren, mousePositionRef, prevTimeRef, requestRef,
                  nextHandle, frames, resizes, stepDt, stepForce, forceCalls,
                  rendered, steps >>

\* the whole component: frames, resizes, pointer moves, sliders, unmount
Init == \E n \in ParticleCounts : Mounted(n, CoarsePts, Viewports)

Next ==
  \/ /\ frames < MaxFrames
     /\ \E h \in rafPending : \E time \in FrameTimes :
          \E newPos \in Configs(CoarsePts, Len(bodiesRef), mousePositionRef) :
            Animate(h, time, newPos)
  \/ handleResize
  \/ \E win \in Viewports : WindowResized(win)
  \/ \E c \in ClientPts(window) : handleMouseMove(c[1], c[2])
  \/ \E value \in AttractionRadii : handleAttractionRadiusChange(value)
  \/ \E value \in AttractionStrengths : handleAttractionStrengthChange(value)
  \/ \E canvas \in { canvasRef, FALSE } : Cleanup(canvas)

Spec == Init /\ [][Next]_vars

\* the force computation on many configurations: particle counts, placements
\* and pointer positions, in a window of 800 x 600 and at 16 ms a frame
InitForces == \E n \in ForceParticleCounts : Mounted(n, Pts, { <<800, 600>> })

NextForces ==
  \/ /\ frames < ForceFrames
     /\ \E h \in rafPending :
          \E newPos \in Configs(Pts, Len(bodiesRef), mousePositionRef) :
            Animate(h, prevTimeRef + 16, newPos)
  \/ \E c \in ClientPts(window) : handleMouseMove(c[1], c[2])

SpecForces == InitForces /\ [][NextForces]_vars

\* the component under direct calls of its functions: the setters of the
\* particle count and radius (lines 19-20; no control of the rendered page
\* calls them) and handleResize called once the cleanup has run (the removed
\* listener no longer calls it), next to frames, window changes and the cleanup
InitHarness == \E n \in ParticleCounts : Mounted(n, CoarsePts, { <<800, 600>> })

NextHarness ==
  \/ /\ frames < MaxFrames
     /\ \E h \in rafPending : \E time \in FrameTimes :
          \E newPos \in Configs(CoarsePts, Len(bodiesRef), mousePositionRef) :
            Animate(h, time, newPos)
  \/ \E value \in HarnessCounts : setNumParticles(value)
  \/ \E value \in HarnessRadii : setParticleRadius(value)
  \/ \E win \in Viewports : WindowResized(win)
  \/ \E canvas \in { canvasRef, FALSE } : Cleanup(canvas)
  \/ ~listeners /\ handleResizeCall

SpecHarness == InitHarness /\ [][NextHarness]_vars

\* ================================================================ claims
\* the force every body is left with by a list of applyForce calls
NetForce(calls, n) == [i \in 1..n |-> Accumulate(calls, i, VZero)]
AllCalls(log) == log.pointer \o log.pair
NoForce(n) == [i \in 1..n |-> VZero]

\* ------------------------------------------------------------------- C1
\* C1 as stated: in every executed frame the forces the frame's world.step
\* integrates are the forces applyForces computed in that same frame (the
\* first frame included), and the renderables show the positions that step
\* produced.
C1_SameFrameForces ==
  frames > 0 =>
    /\ stepForce = NetForce(AllCalls(forceCalls), Len(bodiesRef))
    /\ rendered = Positions(body, bodiesRef)

\* What the frame does instead (not C1): world.step runs before applyForces.
\* The step of a frame integrates the forces the previous frame's
\* applyForces computed (none in the first frame), and the forces computed
\* in a frame stay pending in the accumulators until the next frame's step.
DeferredForces ==
  [][ frames' = frames + 1 =>
        /\ stepForce' = NetForce(AllCalls(forceCalls), Len(bodiesRef))
        /\ Accumulators(body', bodiesRef')
             = NetForce(AllCalls(forceCalls'), Len(bodiesRef'))
        /\ rendered' = Positions(body', bodiesRef')
        /\ (frames = 0 => stepForce' = NoForce(Len(bodiesRef))) ]_vars

\* ------------------------------------------------------------------- C2
\* the values of the sliders as they stand, in place of the closed-over ones
LiveValues ==
  [closure EXCEPT !.attractionRadius = attractionRadius,
                  !.attractionStrength = attractionStrength]

\* C2 as stated: after a control has changed attractionRadius or
\* attractionStrength to v, the force computation of every frame that
\* follows uses v (the value in force when the frame runs), not the value
\* the parameter had when the frame loop was started.
C2_ControlsTakeEffect ==
  [][ frames' = frames + 1 =>
        forceCalls'.pair
          = PairCalls(1, 2, Positions(body', bodiesRef'), LiveValues) ]_vars

\* ------------------------------------------------------------------- C3
\* C3 as stated: the delta-time handed to world.step is at most 0.1 in every
\* frame, and it is exactly 0.1 in a frame that runs 5.0 time-units (5000 ms)
\* after the frame before it.
C3_DeltaClamped ==
  [][ frames' = frames + 1 =>
        /\ stepDt' <= MaxDeltaTime
        /\ (frames > 0 /\ prevTimeRef' - prevTimeRef = 5000
              => stepDt' = MaxDeltaTime) ]_vars

\* ------------------------------------------------- the force law, C4 - C7
\* the positions the latest applyForces read (world.step had just left them)
Pos == Positions(body, bodiesRef)
Particles == 1..Len(bodiesRef)
\* the radius of the particles, and the parameters applyForces reads
Radius == body[bodiesRef[1]].radius
MagSq(v) == RAdd(RMul(v[1], v[1]), RMul(v[2], v[2]))
Square(a) == RMul(a, a)
\* v is a positive multiple of the integer vector from p to q
Towards(v, p, q) ==
  /\ RMul(v[1], RInt(q[2] - p[2])) = RMul(v[2], RInt(q[1] - p[1]))
  /\ RLess(RZero, RAdd(RMul(v[1], RInt(q[1] - p[1])),
                       RMul(v[2], RInt(q[2] - p[2]))))

\* the pair loop calls applyForce twice per pair it does not skip: slot k of
\* the log is calls 2k - 1 and 2k
PairSlots == 1..(Len(forceCalls.pair) \div 2)
SlotOf(k, i, j) ==
  { forceCalls.pair[2 * k - 1].body, forceCalls.pair[2 * k].body } = { i, j }

\* the force added to body i on account of the pair {i, j}
RECURSIVE Contribution(_, _, _)
Contribution(k, i, j) ==
  IF k = 0 THEN VZero
  ELSE LET a == forceCalls.pair[2 * k - 1]
           b == forceCalls.pair[2 * k]
       IN  VAdd(Contribution(k - 1, i, j),
                IF ~SlotOf(k, i, j) THEN VZero
                ELSE IF a.body = i THEN a.force ELSE b.force)
PairContribution(i, j) == Contribution(Len(forceCalls.pair) \div 2, i, j)

\* the force added to body i by the pointer loop
PointerContribution(i) == Accumulate(forceCalls.pointer, i, VZero)

\* C4 as stated: a pair at distance d <= 2 * particleRadius (d exactly
\* 2 * particleRadius included) or d > attractionRadius adds exactly zero to
\* the force of both particles.
C4_ZeroAtContact ==
  frames > 0 =>
    \A i, j \in Particles :
      (i # j /\ (Dist(Pos[i], Pos[j]) <= 2 * Radius
                 \/ Dist(Pos[i], Pos[j]) > closure.attractionRadius))
        => PairContribution(i, j) = VZero /\ PairContribution(j, i) = VZero

\* C4 amended: a pair at distance d < 2 * particleRadius or
\* d > attractionRadius adds exactly zero to the force of both particles; a
\* pair at exactly d = 2 * particleRadius <= attractionRadius is not skipped
\* and is attracted.
C4_ZeroOutOfRange ==
  frames > 0 =>
    \A i, j \in Particles :
      i # j =>
        /\ (Dist(Pos[i], Pos[j]) < 2 * Radius
            \/ Dist(Pos[i], Pos[j]) > closure.attractionRadius)
             => PairContribution(i, j) = VZero /\ PairContribution(j, i) = VZero
        /\ (Dist(Pos[i], Pos[j]) = 2 * Radius
            /\ Dist(Pos[i], Pos[j]) <= closure.attractionRadius)
             => PairContribution(i, j) # VZero /\ PairContribution(j, i) # VZero

\* a frame computed forces with one pair overlapping (0 < d < 2 * radius)
\* and another beyond the attraction radius
C4_Witness ==
  /\ frames > 0
  /\ \E i, j \in Particles :
       Dist(Pos[i], Pos[j]) > 0 /\ Dist(Pos[i], Pos[j]) < 2 * Radius
  /\ \E i, j \in Particles : Dist(Pos[i], Pos[j]) > closure.attractionRadius

\* C5: for every pair a force is applied to, the vector applied to B is the
\* exact negation of the vector applied to A, so the pairwise contributions
\* of a frame sum to the zero vector over all particles.
RECURSIVE SumOver(_, _)
SumOver(forces, n) ==
  IF n = 0 THEN VZero ELSE VAdd(SumOver(forces, n - 1), forces[n])

C5_EqualAndOpposite ==
  frames > 0 =>
    /\ Len(forceCalls.pair) % 2 = 0
    /\ \A k \in PairSlots :
         /\ forceCalls.pair[2 * k].force = VNeg(forceCalls.pair[2 * k - 1].force)
         /\ forceCalls.pair[2 * k].body # forceCalls.pair[2 * k - 1].body
    /\ SumOver(NetForce(forceCalls.pair, Len(bodiesRef)), Len(bodiesRef)) = VZero

\* a frame applied a force to each of the three pairs of three particles
C5_Witness ==
  /\ frames > 0
  /\ Len(forceCalls.pair) = 6
  /\ \A k \in PairSlots : forceCalls.pair[2 * k].force # VZero

\* C6: a pair with 2 * particleRadius <= d <= attractionRadius adds to A a
\* force of magnitude attractionStrength / d^2 that points from A to B; each
\* unordered pair is counted once a frame; and the pair forces are added to
\* the pointer's push on the same particle, not put in its place.
RECURSIVE PairTotal(_, _)
PairTotal(i, j) ==
  IF j = 0 THEN VZero
  ELSE VAdd(PairTotal(i, j - 1), IF j = i THEN VZero ELSE PairContribution(i, j))

C6_InverseSquare ==
  frames > 0 =>
    /\ \A i, j \in Particles :
         (i # j /\ 2 * Radius <= Dist(Pos[i], Pos[j])
                /\ Dist(Pos[i], Pos[j]) <= closure.attractionRadius)
           => /\ Cardinality({ k \in PairSlots : SlotOf(k, i, j) }) = 1
              /\ MagSq(PairContribution(i, j))
                   = Square(Rat(closure.attractionStrength,
                                Dist(Pos[i], Pos[j]) * Dist(Pos[i], Pos[j])))
              /\ Towards(PairContribution(i, j), Pos[i], Pos[j])
    /\ \A i \in Particles :
         body[bodiesRef[i]].force
           = VAdd(PointerContribution(i), PairTotal(i, Len(bodiesRef)))

\* two particles 100 apart attract with magnitude 2.5 (attractionRadius 150,
\* attractionStrength 25000) while the pointer pushes one of them
C6_Witness ==
  /\ frames > 0
  /\ closure.attractionRadius = 150 /\ closure.attractionStrength = 25000
  /\ \E i, j \in Particles :
       /\ Dist(Pos[i], Pos[j]) = 100
       /\ MagSq(PairContribution(i, j)) = Rat(25, 4)
       /\ PointerContribution(i) # VZero

\* C7: with d the distance from the pointer to a particle, the pointer adds
\* exactly zero if d <= 1 or d >= pushRadius; if 1 < d < pushRadius it adds a
\* force of magnitude ((pushRadius - d) / pushRadius) * pushStrength that
\* points from the pointer to the particle, is smaller than pushStrength and
\* is strictly smaller the larger d is.
PointerDist(i) == Dist(Pos[i], forceCalls.mouse)
Pushed(i) == 1 < PointerDist(i) /\ PointerDist(i) < closure.pushRadius

C7_PointerPush ==
  frames > 0 =>
    /\ \A i \in Particles :
         /\ (PointerDist(i) <= 1 \/ PointerDist(i) >= closure.pushRadius)
              => PointerContribution(i) = VZero
         /\ Pushed(i) =>
              /\ MagSq(PointerContribution(i))
                   = Square(RMul(Rat(closure.pushRadius - PointerDist(i),
                                     closure.pushRadius),
                                 RInt(closure.pushStrength)))
              /\ Towards(PointerContribution(i), forceCalls.mouse, Pos[i])
              /\ RLess(MagSq(PointerContribution(i)),
                       Square(RInt(closure.pushStrength)))
    /\ \A i, j \in Particles :
         (Pushed(i) /\ Pushed(j) /\ PointerDist(i) < PointerDist(j))
           => RLess(MagSq(PointerContribution(j)), MagSq(PointerContribution(i)))

\* pushRadius 80: a particle 40 from the pointer is pushed with half of
\* pushStrength, a nearer one is pushed harder, one at 80 or more not at all
C7_Witness ==
  /\ frames > 0
  /\ closure.pushRadius = 80
  /\ \E i, j, k \in Particles :
       /\ PointerDist(i) = 40
       /\ MagSq(PointerContribution(i)) = Square(Rat(closure.pushStrength, 2))
       /\ Pushed(j) /\ PointerDist(j) < 40
       /\ PointerDist(k) >= 80

\* ------------------------------------------------- the boundaries, C8 - C10
\* the bodies of the world that are not particle bodies, in world order
IsParticle(id) == \E k \in 1..Len(bodiesRef) : bodiesRef[k] = id
Boundaries == SelectSeq(worldBodies, LAMBDA id : ~IsParticle(id))
ParticlesInWorld == SelectSeq(worldBodies, IsParticle)
\* position and size of every boundary, in world order
Geometry(bs, b) == [k \in 1..Len(bs) |-> <<b[bs[k]].position, b[bs[k]].size>>]

\* C8: while running (from the mount on, through any resizes and frames) the
\* world holds exactly four bodies that are not particles, all of mass 0:
\* top at (0, H/2 + 25) of W x 50, bottom at (0, -H/2 - 25) of W x 50, left at
\* (-W/2 - 25, 0) of 50 x H, right at (W/2 + 25, 0) of 50 x H, for the (W, H)
\* of the latest mount or resize (the size the renderer was last given).
C8_FourBoundaries ==
  listeners =>
    LET W == rendererSize[1]
        H == rendererSize[2]
    IN  /\ Len(Boundaries) = 4
        /\ \A k \in 1..4 : body[Boundaries[k]].mass = 0
        /\ { <<body[Boundaries[k]].position, body[Boundaries[k]].size>> : k \in 1..4 }
             = { << <<0, H \div 2 + 25>>, <<W, 50>> >>,
                 << <<0, -(H \div 2) - 25>>, <<W, 50>> >>,
                 << <<-(W \div 2) - 25, 0>>, <<50, H>> >>,
                 << <<W \div 2 + 25, 0>>, <<50, H>> >> }

\* frames have run and two resizes were handled, the latest at 1200 x 800
C8_Witness ==
  /\ listeners
  /\ resizes = 2 /\ frames > 0
  /\ rendererSize = <<1200, 800>>
  /\ Len(Boundaries) = 4

\* C9: handleResize leaves the particles alone: the list of particle bodies,
\* every particle body (position, pending force, ...), the meshes and the
\* pointer position are after it what they were before it, and the bodies it
\* takes out of the world are not particle bodies.
C9_ResizeKeepsParticles ==
  [][ resizes' = resizes + 1 =>
        /\ bodiesRef' = bodiesRef
        /\ \A i \in 1..Len(bodiesRef) :
             /\ bodiesRef[i] \in DOMAIN body'
             /\ body'[bodiesRef[i]] = body[bodiesRef[i]]
        /\ ParticlesInWorld' = ParticlesInWorld
        /\ Len(ParticlesInWorld') = Len(bodiesRef)
        /\ particlesRef' = particlesRef
        /\ sceneChildren' = sceneChildren
        /\ mousePositionRef' = mousePositionRef ]_vars

\* a resize was handled with particles that frames had moved and loaded with
\* forces, and with the pointer away from the origin
C9_Witness ==
  /\ resizes > 0 /\ frames > 0
  /\ mousePositionRef # <<0, 0>>
  /\ \E i \in 1..Len(bodiesRef) : body[bodiesRef[i]].force # VZero
  /\ Len(ParticlesInWorld) = Len(bodiesRef)

\* C10: the rebuild is idempotent: handleResize on a world whose boundaries
\* were built for (W, H), run again with the window still at (W, H), leaves
\* four boundaries with the positions and sizes they had, no leftovers and
\* no duplicates.
C10_RebuildIdempotent ==
  [][ (resizes' = resizes + 1 /\ window = rendererSize) =>
        /\ Len(Boundaries') = 4
        /\ Geometry(Boundaries', body') = Geometry(Boundaries, body)
        /\ \A k \in 1..Len(Boundaries) :
             ~(\E m \in 1..Len(worldBodies') : worldBodies'[m] = Boundaries[k]) ]_vars

\* two resizes were handled, with no frame in between, the latest for the
\* viewport the window still has
C10_Witness ==
  /\ resizes = 2 /\ frames = 0
  /\ window = rendererSize
  /\ Len(contactMaterials) = 4
  /\ Len(Boundaries) = 4

\* ------------------------------------------------------------------ C11
\* the contact materials of the world between the particle material and a
\* boundary material
BoundaryContacts == SelectSeq(contactMaterials, LAMBDA cm : cm[1] # cm[2])

\* C11 as stated: after the mount and any number of boundary rebuilds the
\* world holds exactly one particle-boundary contact material.
C11_OneBoundaryContact == Len(BoundaryContacts) = 1

\* ------------------------------------------------------------------ C12
\* C12 as stated: once the particle count or the particle radius has been
\* changed, the frame that follows works on a body list and a mesh list
\* rebuilt for the new values: each has exactly numParticles entries, of the
\* new radius.
C12_CountChangeRebuilds ==
  [][ frames' = frames + 1 =>
        /\ Len(bodiesRef') = numParticles'
        /\ Len(particlesRef') = numParticles'
        /\ \A i \in 1..Len(bodiesRef') :
             body'[bodiesRef'[i]].radius = particleRadius' ]_vars

\* ------------------------------------------------------------------ C13
\* C13: the cleanup leaves no frame request pending, and once it has run
\* nothing of the simulation changes again: no frame (no step, no force
\* computation, no render, no new request) and no pointer or resize handler.
C13_DisposedSilent ==
  [][ /\ ~listeners' => rafPending' = {}
      /\ ~listeners =>
           /\ ~listeners'
           /\ UNCHANGED << frames, stepDt, stepForce, forceCalls, rendered,
                           body, particlesRef, prevTimeRef, requestRef,
                           rafPending, nextHandle, mousePositionRef, resizes,
                           camera, rendererSize, worldBodies,
                           contactMaterials >> ]_vars

\* the cleanup ran after frames and a resize, cancelling the request of the
\* latest frame; the window has changed since the renderer was last sized
C13_Witness ==
  /\ ~listeners
  /\ frames > 1 /\ resizes > 0
  /\ requestRef = nextHandle - 1 /\ rafPending = {}
  /\ window # rendererSize

\* ------------------------------------------------------------------ C14
\* C14: in every state from the mount on, the body list and the mesh list
\* have the configured number of entries, entry i of each being the body and
\* the mesh created for particle i (also the i-th child of the scene).
C14_ListsAligned ==
  /\ Len(bodiesRef) = numParticles
  /\ Len(particlesRef) = numParticles
  /\ Len(sceneChildren) = numParticles
  /\ \A i \in 1..numParticles :
       /\ bodiesRef[i] = i
       /\ particlesRef[i].mesh = i
       /\ sceneChildren[i] = i

\* frames, a resize, a pointer move and a slider change have all happened
C14_Witness ==
  /\ frames > 1 /\ resizes > 0
  /\ mousePositionRef # <<0, 0>>
  /\ attractionRadius # DefaultAttractionRadius
  /\ Len(bodiesRef) = 2 /\ Len(particlesRef) = 2

\* ------------------------------------------------------------------ C15
\* C15: a pointer-move event replaces the pointer position as a whole, by
\* the position of the event, and never during a frame; a frame reads the
\* position once, the one the latest event wrote (the initial (0, 0) if
\* none), and pushes every particle relative to that same position.
C15_PointerReadOnce ==
  [][ /\ mousePositionRef' # mousePositionRef =>
           frames' = frames /\ mousePositionRef' \in MousePts
      /\ frames' = frames + 1 =>
           /\ forceCalls'.mouse = mousePositionRef
           /\ \A i \in 1..Len(bodiesRef') :
                LET p == body'[bodiesRef'[i]].position
                    d == Dist(p, mousePositionRef)
                    f == Accumulate(forceCalls'.pointer, i, VZero)
                IN  IF 1 < d /\ d < closure.pushRadius
                    THEN /\ Towards(f, mousePositionRef, p)
                         /\ MagSq(f) = Square(RMul(Rat(closure.pushRadius - d,
                                                       closure.pushRadius),
                                                   RInt(closure.pushStrength)))
                    ELSE f = VZero ]_vars

\* a frame pushed both particles away from the pointer at (48, 64), written
\* by an event after an earlier frame, and the pointer has moved on since
C15_Witness ==
  /\ frames > 1
  /\ forceCalls.mouse = <<48, 64>>
  /\ Len(forceCalls.pointer) = 2
  /\ mousePositionRef # forceCalls.mouse

\* ------------------------------------------------------------------ C16
\* C16 as stated: once the cleanup has run the component no longer holds
\* the world, the particle body list or the mesh list.
C16_TeardownReleases ==
  ~listeners => /\ ~worldRef
                /\ bodiesRef = << >>
                /\ particlesRef = << >>

\* ------------------------------------------------------------------ C17
\* C17 as stated: a call of handleResize after the cleanup changes neither
\* the bodies of the world, nor its contact materials, nor the camera, nor
\* the size of the renderer.
C17_LateResizeStopped ==
  [][ (~listeners /\ resizes' = resizes + 1) =>
        UNCHANGED << body, worldBodies, contactMaterials, camera,
                     rendererSize >> ]_vars

\* ------------------------------------------------------------------ C18
\* C18 as stated: the first frame of a run is handed the default delta-time
\* 0.016, and every later frame min((t - tPrev) / 1000, 0.1), tPrev being the
\* timestamp of the frame before it, also when that timestamp is 0.
C18_DefaultOnlyFirst ==
  [][ frames' = frames + 1 =>
        stepDt' = IF frames = 0 THEN DefaultDeltaTime
                  ELSE IF prevTimeRef' - prevTimeRef < MaxDeltaTime
                       THEN prevTimeRef' - prevTimeRef
                       ELSE MaxDeltaTime ]_vars

\* ------------------------------------------------------------------ C19
\* C19: at the end of every frame, mesh i is the mesh it was and stands
\* where the frame's world.step left body i, and that is what is drawn.
C19_MeshesFollowBodies ==
  [][ frames' = frames + 1 =>
        /\ Len(particlesRef') = Len(bodiesRef')
        /\ \A i \in 1..Len(bodiesRef') :
             /\ particlesRef'[i].mesh = particlesRef[i].mesh
             /\ particlesRef'[i].position = body'[bodiesRef'[i]].position
             /\ rendered'[i] = body'[bodiesRef'[i]].position ]_vars

\* after several frames the two meshes stand at the two different places
\* world.step left their bodies at, and that is what was drawn
C19_Witness ==
  /\ frames > 1
  /\ particlesRef[1].position = <<24, 32>>
  /\ particlesRef[2].position = <<0, 0>>
  /\ body[bodiesRef[1]].position = <<24, 32>>
  /\ body[bodiesRef[2]].position = <<0, 0>>
  /\ rendered = << <<24, 32>>, <<0, 0>> >>

\* ------------------------------------------------------------------ C20
\* C20: while running exactly one frame request is pending and requestRef
\* holds its handle; every frame consumes it, calls world.step once and
\* makes one new request, whose handle it stores.
C20_OneRequest ==
  /\ [](listeners => rafPending = { requestRef })
  /\ [][ frames' = frames + 1 =>
           /\ steps' = steps + 1
           /\ requestRef \notin rafPending'
           /\ requestRef' \notin rafPending
           /\ Cardinality(rafPending' \ rafPending) = 1
           /\ rafPending' = { requestRef' } ]_vars

\* frames have run: the request of the latest one is the only one pending
C20_Witness ==
  /\ listeners
  /\ frames > 1 /\ steps = frames
  /\ requestRef = frames + 1
  /\ rafPending = { requestRef }

====
